---- MODULE Spec2Model ----
(***************************************************************************)
(* Model of the rule-based vitals pipeline of data/build_health_risk_      *)
(* dataset.py: vitals_to_text and assign_risk_and_recommendation applied   *)
(* to one row of daily vitals.                                             *)
(*                                                                         *)
(* Numbers are fixed-point, in hundredths: 100.01 is 10001.  A Python      *)
(* value held by a row is a record [kind, v]:                              *)
(*   "missing"  the key is not in the row                                  *)
(*   "none"     None                                                       *)
(*   "nan"      float("nan")                                               *)
(*   "str"      a non-empty, non-numeric string such as "abc"              *)
(*   "num"      a finite number, v hundredths                              *)
(***************************************************************************)
EXTENDS Integers, Sequences, FiniteSets, TLC

VARIABLES
    \* one row of vitals and the results of the two functions on it
    row, risk_out, text_out,
    \* the dataset builder: the CSV file, the loaded frame, the loop position,
    \* the output rows, the control point, the function entered, the file
    \* written and the value main returns
    csv, df, idx, rows, pc, entry, out_file, ret,
    \* the entity store of the WorldService server, the last call served, the
    \* store as it was before that call, and the ids expired and not pushed
    \* since, and for each id the most recent Push or successful ExpireEntity
    \* that touched it
    entities, last, before, expired, recent,
    \* export_to_tflite: the command-line flags, what the exports find when
    \* they run, the exports attempted so far, main's `ok`, the control point
    \* and the exit status of the process
    args, world, attempted, ok, xpc, exit_status,
    \* the server's thread pool: the call each worker thread is serving, the
    \* number of requests accepted so far, and the number of slots of the
    \* table of the dict the threads share
    calls, served, dk_size

vitalsVars == <<row, risk_out, text_out>>
mainVars == <<csv, df, idx, rows, pc, entry, out_file, ret>>
storeVars == <<entities, last, before, expired, recent>>
exportVars == <<args, world, attempted, ok, xpc, exit_status>>
poolVars == <<calls, served, dk_size>>

vars == <<row, risk_out, text_out, csv, df, idx, rows, pc, entry, out_file, ret,
          entities, last, before, expired, recent,
          args, world, attempted, ok, xpc, exit_status, calls, served, dk_size>>

(***************************************************************************)
(* Bounds                                                                  *)
(***************************************************************************)
\* At most this many fields of a row of KindRows hold a value that is not a
\* plain reading (missing key, None, NaN, string, zero, negative).
MaxSpecial == 1

\* At most this many lines in the CSV file, or rows in a frame handed to
\* build_dataset.
MaxRows == 3

\* At most this many entities in the changes of one Push request.
MaxChanges == 2

\* Of the 10 worker threads of the pool, this many serve requests.
MaxWorkers == 2

\* At most this many requests are accepted by the pool in one run.
MaxCalls == 3

\* Before the run the store served at most this many rounds of a Push and an
\* ExpireEntity of the same id.
MaxWear == 8

(***************************************************************************)
(* Python values                                                           *)
(***************************************************************************)
Units(n) == n * 100

Num(h) == [kind |-> "num", v |-> h]
Missing == [kind |-> "missing", v |-> 0]
NoneVal == [kind |-> "none", v |-> 0]
NaN == [kind |-> "nan", v |-> 0]
Str == [kind |-> "str", v |-> 0]

Fields == {"HR_avg", "HR_max", "HR_resting", "SpO2_avg", "Steps",
           "Intensity_min", "Calories", "Sleep_total_min"}

\* row.get(k): None when the key is absent
Get(r, k) == IF r[k].kind = "missing" THEN NoneVal ELSE r[k]

\* row.get(k, 0): 0 when the key is absent
GetOr0(r, k) == IF r[k].kind = "missing" THEN Num(0) ELSE r[k]

\* bool(x): None and 0 are falsy; NaN, a non-zero number and a non-empty
\* string are truthy
Truthy(x) == CASE x.kind = "none" -> FALSE
               [] x.kind = "num" -> x.v # 0
               [] OTHER -> TRUE

\* x or 0
Or0(x) == IF Truthy(x) THEN x ELSE Num(0)

\* float(x): [exc, nan, v]; a non-numeric string raises ValueError, None
\* raises TypeError
float(x) == CASE x.kind = "num" -> [exc |-> "", nan |-> FALSE, v |-> x.v]
              [] x.kind = "nan" -> [exc |-> "", nan |-> TRUE, v |-> 0]
              [] x.kind = "str" -> [exc |-> "ValueError", nan |-> FALSE, v |-> 0]
              [] OTHER -> [exc |-> "TypeError", nan |-> FALSE, v |-> 0]

\* Comparisons of a float with a literal: every comparison with NaN is False
Gt(x, c) == ~x.nan /\ x.v > c
Ge(x, c) == ~x.nan /\ x.v >= c
Lt(x, c) == ~x.nan /\ x.v < c
Le(x, c) == ~x.nan /\ x.v <= c

\* pd.notna(x)
notna(x) == x.kind \notin {"none", "nan"}

\* int(x) of a finite number: truncation toward zero
int(h) == IF h >= 0 THEN h \div 100 ELSE -((-h) \div 100)

(***************************************************************************)
(* assign_risk_and_recommendation                                          *)
(***************************************************************************)
\* float(row.get(k) or 0)
FloatOr0_nodefault(r, k) == float(Get(r, k))
FloatOr0(r, k) == float(Or0(Get(r, k)))

RecGreen == "Continue normal activity. Stay hydrated."
RecYellow == "Monitor vital signs. Consider rest and hydration soon."
RecRed == "Heat stress or fatigue risk. Rest and rehydrate. Seek shade. Recommend rest in 10 min."

NoData(hr_avg, hr_max, spo2, intensity) ==
    Le(hr_avg, 0) /\ Le(hr_max, 0) /\ Le(spo2, 0) /\ Le(intensity, 0)

NoDataResult_yellow == [status |-> "ok", risk |-> "yellow", rec |-> RecYellow]
NoDataResult_monitor == [status |-> "ok", risk |-> "green", rec |-> RecYellow]
NoDataResult == [status |-> "ok", risk |-> "green", rec |-> RecGreen]

RedClause_ge(hr_avg, hr_max, spo2, intensity, sleep_min) ==
    \/ (Ge(hr_avg, Units(100)) \/ Gt(hr_max, Units(120)))
    \/ (Gt(spo2, 0) /\ Lt(spo2, Units(90)))
    \/ (Gt(intensity, Units(45)) /\ Lt(sleep_min, Units(30)))
RedClause_and(hr_avg, hr_max, spo2, intensity, sleep_min) ==
    \/ (Gt(hr_avg, Units(100)) \/ Gt(hr_max, Units(120)))
    \/ (Gt(spo2, 0) /\ Lt(spo2, Units(90)))
    \/ (Gt(intensity, Units(45)) \/ Lt(sleep_min, Units(30)))
RedClause(hr_avg, hr_max, spo2, intensity, sleep_min) ==
    \/ (Gt(hr_avg, Units(100)) \/ Gt(hr_max, Units(120)))
    \/ (Gt(spo2, 0) /\ Lt(spo2, Units(90)))
    \/ (Gt(intensity, Units(45)) /\ Lt(sleep_min, Units(30)))

YellowClause_nosleep(hr_avg, hr_max, spo2, intensity, sleep_min, steps) ==
    \/ ((Gt(hr_avg, Units(85)) /\ Le(hr_avg, Units(100)))
        \/ (Gt(hr_max, Units(100)) /\ Le(hr_max, Units(120))))
    \/ ((Ge(spo2, Units(90)) /\ Lt(spo2, Units(95))) /\ Gt(spo2, 0))
    \/ (Gt(intensity, Units(20)) /\ Lt(sleep_min, Units(60)))
    \/ (Gt(steps, Units(5000)) /\ Gt(hr_avg, Units(80)))
YellowClause_spo2(hr_avg, hr_max, spo2, intensity, sleep_min, steps) ==
    \/ ((Gt(hr_avg, Units(85)) /\ Le(hr_avg, Units(100)))
        \/ (Gt(hr_max, Units(100)) /\ Le(hr_max, Units(120))))
    \/ ((Ge(spo2, Units(90)) /\ Le(spo2, Units(95))) /\ Gt(spo2, 0))
    \/ (Gt(intensity, Units(20)) /\ Lt(sleep_min, Units(60)))
    \/ (Gt(steps, Units(5000)) /\ Gt(hr_avg, Units(80)) /\ Lt(sleep_min, Units(300)))
\* 85 < hr_avg <= 100 is (85 < hr_avg) and (hr_avg <= 100)
YellowClause(hr_avg, hr_max, spo2, intensity, sleep_min, steps) ==
    \/ ((Gt(hr_avg, Units(85)) /\ Le(hr_avg, Units(100)))
        \/ (Gt(hr_max, Units(100)) /\ Le(hr_max, Units(120))))
    \/ ((Ge(spo2, Units(90)) /\ Lt(spo2, Units(95))) /\ Gt(spo2, 0))
    \/ (Gt(intensity, Units(20)) /\ Lt(sleep_min, Units(60)))
    \/ (Gt(steps, Units(5000)) /\ Gt(hr_avg, Units(80)) /\ Lt(sleep_min, Units(300)))

\* risk = "green"; if <red>: risk = "red"; elif <yellow>: risk = "yellow"
RiskLevel_nodefault(hr_avg, hr_max, spo2, intensity, sleep_min, steps) ==
    IF RedClause(hr_avg, hr_max, spo2, intensity, sleep_min) THEN "red"
    ELSE IF YellowClause(hr_avg, hr_max, spo2, intensity, sleep_min, steps)
         THEN "yellow"
         ELSE "unbound"
RiskLevel(hr_avg, hr_max, spo2, intensity, sleep_min, steps) ==
    IF RedClause(hr_avg, hr_max, spo2, intensity, sleep_min) THEN "red"
    ELSE IF YellowClause(hr_avg, hr_max, spo2, intensity, sleep_min, steps)
         THEN "yellow"
         ELSE "green"

Recommendation(risk) ==
    IF risk = "red" THEN RecRed
    ELSE IF risk = "yellow" THEN RecYellow
    ELSE RecGreen

Raise(e) == [status |-> e, risk |-> "", rec |-> ""]

\* The first conversion that raises ends the call; the conversions run in the
\* order of the assignments.
FirstExc(s) ==
    LET bad == {i \in 1..Len(s) : s[i].exc # ""}
    IN IF bad = {} THEN ""
       ELSE s[CHOOSE i \in bad : \A j \in bad : i <= j].exc

assign_risk_and_recommendation(r) ==
    LET hr_avg == FloatOr0(r, "HR_avg")
        hr_max == FloatOr0(r, "HR_max")
        hr_rest == FloatOr0(r, "HR_resting")
        spo2 == FloatOr0(r, "SpO2_avg")
        intensity == FloatOr0(r, "Intensity_min")
        sleep_min == FloatOr0(r, "Sleep_total_min")
        steps == FloatOr0(r, "Steps")
        exc == FirstExc(<<hr_avg, hr_max, hr_rest, spo2, intensity, sleep_min, steps>>)
    IN IF exc # "" THEN Raise(exc)
       ELSE IF NoData(hr_avg, hr_max, spo2, intensity) THEN NoDataResult
       ELSE LET risk == RiskLevel(hr_avg, hr_max, spo2, intensity, sleep_min, steps)
            IN [status |-> "ok", risk |-> risk, rec |-> Recommendation(risk)]

(***************************************************************************)
(* vitals_to_text                                                          *)
(***************************************************************************)
\* pd.notna(row.get(k)) and row.get(k, 0) > 0: "yes", "no", or the exception
\* of comparing a string with 0
Present_ge(r, k) ==
    IF ~notna(Get(r, k)) THEN "no"
    ELSE CASE GetOr0(r, k).kind = "str" -> "TypeError"
           [] OTHER -> IF GetOr0(r, k).v >= 0 THEN "yes" ELSE "no"
Present(r, k) ==
    IF ~notna(Get(r, k)) THEN "no"
    ELSE CASE GetOr0(r, k).kind = "str" -> "TypeError"
           [] OTHER -> IF GetOr0(r, k).v > 0 THEN "yes" ELSE "no"

\* f"{int(row[k])}"
IntText(r, k) == ToString(int(r[k].v))

\* f"sleep {h}h{m}m" with h = int(x) // 60, m = int(x) % 60
SleepText_round(r) ==
    LET n == int(r["Sleep_total_min"].v + 50)
    IN "sleep " \o ToString(n \div 60) \o "h" \o ToString(n % 60) \o "m"
SleepText(r) ==
    LET n == int(r["Sleep_total_min"].v)
    IN "sleep " \o ToString(n \div 60) \o "h" \o ToString(n % 60) \o "m"

\* The eight "if ...: parts.append(...)" statements, in source order
Segment(r, i) ==
    CASE i = 1 -> [k |-> "HR_avg", s |-> "HR average " \o IntText(r, "HR_avg") \o " bpm"]
      [] i = 2 -> [k |-> "HR_max", s |-> "HR max " \o IntText(r, "HR_max") \o " bpm"]
      [] i = 3 -> [k |-> "HR_resting", s |-> "resting HR " \o IntText(r, "HR_resting") \o " bpm"]
      [] i = 4 -> [k |-> "SpO2_avg", s |-> "SpO2 " \o IntText(r, "SpO2_avg") \o " percent"]
      [] i = 5 -> [k |-> "Steps", s |-> "steps " \o IntText(r, "Steps")]
      [] i = 6 -> [k |-> "Intensity_min", s |-> "active " \o IntText(r, "Intensity_min") \o " minutes"]
      [] i = 7 -> [k |-> "Calories", s |-> "calories " \o IntText(r, "Calories")]
      [] OTHER -> [k |-> "Sleep_total_min", s |-> SleepText(r)]

NSegments == Cardinality(Fields)

RECURSIVE Parts_prepend(_, _)
Parts_prepend(r, i) ==
    IF i = 0 THEN <<>>
    ELSE IF Present(r, Segment(r, i).k) = "yes"
         THEN <<Segment(r, i).s>> \o Parts_prepend(r, i - 1)
         ELSE Parts_prepend(r, i - 1)

RECURSIVE Parts(_, _)
\* parts after the first i statements
Parts(r, i) ==
    IF i = 0 THEN <<>>
    ELSE IF Present(r, Segment(r, i).k) = "yes"
         THEN Append(Parts(r, i - 1), Segment(r, i).s)
         ELSE Parts(r, i - 1)

RECURSIVE Join(_)
\* " ".join(parts)
Join(parts) ==
    IF Len(parts) = 0 THEN ""
    ELSE IF Len(parts) = 1 THEN parts[1]
    ELSE parts[1] \o " " \o Join(Tail(parts))

vitals_to_text(r) ==
    IF \E i \in 1..NSegments : Present(r, Segment(r, i).k) = "TypeError"
    THEN [status |-> "TypeError", text |-> ""]
    ELSE IF Parts(r, NSegments) = <<>>
         THEN [status |-> "ok", text |-> "No vital signs recorded."]
         ELSE [status |-> "ok", text |-> Join(Parts(r, NSegments))]

(***************************************************************************)
(* Input rows                                                              *)
(***************************************************************************)
\* One hundredth: the two sides of a threshold t are t and t + Eps (for >, <=)
\* or t - Eps and t (for <, >=).
NumSet(S) == {Num(h) : h \in S}

\* Rows of plain readings: every field takes the values on both sides of each
\* threshold the classifier compares it with, and 0 ("no reading").
NumericRows ==
    [HR_avg : NumSet({-1, 0, Units(80), Units(80) + 1, Units(85), Units(85) + 1,
                      Units(100), Units(100) + 1}),
     HR_max : NumSet({-1, 0, Units(100), Units(100) + 1, Units(120), Units(120) + 1}),
     HR_resting : NumSet({0, Units(55)}),
     SpO2_avg : NumSet({-1, 0, Units(90) - 1, Units(90), Units(95) - 1, Units(95)}),
     Steps : NumSet({0, Units(5000), Units(5001)}),
     Intensity_min : NumSet({-1, 0, Units(20), Units(20) + 1, Units(45), Units(45) + 1}),
     Calories : NumSet({0, Units(180)}),
     Sleep_total_min : NumSet({-1, 0, Units(30) - 1, Units(30), Units(60) - 1, Units(60),
                               Units(300) - 1, Units(300)})]

Empty == [f \in Fields |-> Missing]

\* A dict literal: the fields given, every other key missing
Dict(given) == [f \in Fields |-> IF f \in DOMAIN given THEN Num(Units(given[f])) ELSE Missing]

ScenarioRed ==
    Dict([HR_avg |-> 108, HR_max |-> 125, SpO2_avg |-> 87, Steps |-> 8000,
          Intensity_min |-> 50, Sleep_total_min |-> 0])
ScenarioYellow ==
    Dict([HR_avg |-> 88, HR_max |-> 105, SpO2_avg |-> 95, Steps |-> 5000,
          Intensity_min |-> 25, Sleep_total_min |-> 240])
ScenarioGreen ==
    Dict([HR_avg |-> 62, HR_max |-> 80, SpO2_avg |-> 98, Steps |-> 2000,
          Sleep_total_min |-> 390])
ScenarioText == Dict([HR_avg |-> 65, Sleep_total_min |-> 90])

\* Only HR_avg present, at the values the boundary examples name
BoundaryRows ==
    {[Empty EXCEPT !["HR_avg"] = Num(h)] :
        h \in {Units(85), Units(85) + 10, Units(100), Units(100) + 1, Units(100) + 10}}

Scenarios ==
    {ScenarioRed, ScenarioYellow, ScenarioGreen, ScenarioText, Empty} \cup BoundaryRows

\* Rows whose fields may hold any kind of Python value: a coarse grid of
\* readings, with at most MaxSpecial fields replaced.
BaseRows ==
    [HR_avg : NumSet({Units(62), Units(88), Units(108)}),
     HR_max : NumSet({Units(80), Units(105)}),
     HR_resting : NumSet({Units(55)}),
     SpO2_avg : NumSet({Units(87), Units(92), Units(98)}),
     Steps : NumSet({Units(2000), Units(8000)}),
     Intensity_min : NumSet({Units(25), Units(50)}),
     Calories : NumSet({Units(180)}),
     Sleep_total_min : NumSet({Units(20), Units(45), Units(240)})]

SpecialValues == {Missing, NoneVal, NaN, Str, Num(0), Num(-Units(1)), Num(-1)}

RECURSIVE Replaced(_)
Replaced(n) ==
    IF n = 0 THEN BaseRows
    ELSE LET prev == Replaced(n - 1)
         IN prev \cup {[r EXCEPT ![f] = x] : r \in prev, f \in Fields, x \in SpecialValues}

KindRows == Replaced(MaxSpecial) \cup Scenarios

(***************************************************************************)
(* State machine: one row, each function applied to it once                *)
(***************************************************************************)
Pending == [status |-> "pending", risk |-> "", rec |-> ""]
PendingText == [status |-> "pending", text |-> ""]

\* The dataset builder not started
NoFile == [exists |-> FALSE, lines |-> <<>>]
NothingWritten == [written |-> FALSE, rows |-> <<>>]

MainIdle ==
    /\ csv = NoFile
    /\ df = <<>>
    /\ idx = 0
    /\ rows = <<>>
    /\ pc = "idle"
    /\ entry = "none"
    /\ out_file = NothingWritten
    /\ ret = -1

\* The server not started
NoCall == [op |-> "none", id |-> "", changes |-> <<>>, filter |-> [id |-> "", label |-> ""],
           code |-> "OK", accepted |-> FALSE, found |-> <<>>]

\* The ids a request can carry
EntityIds == {"", "e1", "e2"}

\* No Push and no successful ExpireEntity has touched the id
Untouched == [op |-> "none", entity |-> <<>>]

StoreIdle ==
    /\ entities = <<>>
    /\ last = NoCall
    /\ before = [entities |-> <<>>, expired |-> {}]
    /\ expired = {}
    /\ recent = [id \in EntityIds |-> Untouched]

\* export_to_tflite not started
NoArgs == [for_mediapipe |-> FALSE, use_keras_only |-> FALSE, other |-> "none"]
NoWorld == [saved_model |-> FALSE, dataset |-> FALSE, imports |-> FALSE,
            cmd |-> <<"FileNotFoundError", "FileNotFoundError">>, train |-> "done",
            mkdir |-> "done"]

ExportIdle ==
    /\ args = NoArgs
    /\ world = NoWorld
    /\ attempted = <<>>
    /\ ok = "unset"
    /\ xpc = "idle"
    /\ exit_status = -1

\* No worker thread is serving a call
\* A dict created empty gets a table of 8 slots with its first key
PyDict_MINSIZE == 8
PoolIdle == calls = <<>> /\ served = 0 /\ dk_size = PyDict_MINSIZE


Init ==
    /\ row \in NumericRows \cup Scenarios
    /\ risk_out = Pending
    /\ text_out = PendingText
    /\ MainIdle
    /\ StoreIdle
    /\ ExportIdle
    /\ PoolIdle

InitKinds ==
    /\ row \in KindRows
    /\ risk_out = Pending
    /\ text_out = PendingText
    /\ MainIdle
    /\ StoreIdle
    /\ ExportIdle
    /\ PoolIdle

\* risk, rec = assign_risk_and_recommendation(row)
Classify ==
    /\ risk_out = Pending
    /\ risk_out' = assign_risk_and_recommendation(row)
    /\ UNCHANGED <<row, text_out, mainVars, storeVars, exportVars, poolVars>>

\* text = vitals_to_text(row)
Render ==
    /\ text_out = PendingText
    /\ text_out' = vitals_to_text(row)
    /\ UNCHANGED <<row, risk_out, mainVars, storeVars, exportVars, poolVars>>

Next == Classify \/ Render

Spec == Init /\ [][Next]_vars

SpecKinds == InitKinds /\ [][Next]_vars

(***************************************************************************)
(* Properties.  A VitalsRecord field is the reading of the row: its number, *)
(* or 0 when the key is missing.  The clauses below are the rules of the   *)
(* specification, over plain integers (hundredths).                        *)
(***************************************************************************)
Classified == risk_out.status # "pending"
Rendered == text_out.status # "pending"

Reading(f) == IF row[f].kind = "num" THEN row[f].v ELSE 0

R_hr_avg == Reading("HR_avg")
R_hr_max == Reading("HR_max")
R_spo2 == Reading("SpO2_avg")
R_steps == Reading("Steps")
R_intensity == Reading("Intensity_min")
R_sleep == Reading("Sleep_total_min")

AllReadings == \A f \in Fields : row[f].kind \in {"num", "missing"}

RuleNoData == R_hr_avg <= 0 /\ R_hr_max <= 0 /\ R_spo2 <= 0 /\ R_intensity <= 0

RuleRed ==
    \/ R_hr_avg > 10000
    \/ R_hr_max > 12000
    \/ (0 < R_spo2 /\ R_spo2 < 9000)
    \/ (R_intensity > 4500 /\ R_sleep < 3000)

RuleYellow ==
    \/ (8500 < R_hr_avg /\ R_hr_avg <= 10000)
    \/ (10000 < R_hr_max /\ R_hr_max <= 12000)
    \/ (9000 <= R_spo2 /\ R_spo2 < 9500)
    \/ (R_intensity > 2000 /\ R_sleep < 6000)
    \/ (R_steps > 500000 /\ R_hr_avg > 8000 /\ R_sleep < 30000)

GreenPair ==
    [status |-> "ok", risk |-> "green",
     rec |-> "Continue normal activity. Stay hydrated."]
YellowPair ==
    [status |-> "ok", risk |-> "yellow",
     rec |-> "Monitor vital signs. Consider rest and hydration soon."]
RedPair ==
    [status |-> "ok", risk |-> "red",
     rec |-> "Heat stress or fatigue risk. Rest and rehydrate. Seek shade. Recommend rest in 10 min."]

\* C1: a record with hr_avg, hr_max, spo2_avg and intensity_min all <= 0 is
\* classified (green, green recommendation), whatever steps, sleep, calories
\* and resting HR are.
C1_NoDataIsGreen ==
    (Classified /\ AllReadings /\ RuleNoData) => risk_out = GreenPair

\* C1 witness: a classified no-data record with a negative HR average and
\* steps, sleep, calories and resting HR all present.
C1_Witness ==
    /\ Classified /\ AllReadings /\ RuleNoData
    /\ R_hr_avg < 0
    /\ R_steps > 500000 /\ R_sleep > 0 /\ R_sleep < 3000
    /\ Reading("Calories") > 0 /\ Reading("HR_resting") > 0
    /\ risk_out.risk = "green"

\* C2: a record is classified red exactly when at least one red clause
\* holds, also when a yellow clause holds at the same time; the red scenario
\* of the specification is red with the red recommendation.
C2_RedIffRedClause ==
    (Classified /\ AllReadings) =>
        /\ (risk_out.risk = "red") <=> RuleRed
        /\ (row = ScenarioRed) => risk_out = RedPair

\* C2 witness: the red scenario, classified; it satisfies a red clause and
\* the yellow clause on intensity and sleep at once.
C2_Witness ==
    /\ Classified /\ row = ScenarioRed
    /\ RuleRed /\ RuleYellow
    /\ risk_out.risk = "red"

\* C3: a record is classified yellow exactly when no red clause holds and at
\* least one yellow clause holds; the yellow scenario of the specification is
\* yellow.
C3_YellowIffYellowClause ==
    (Classified /\ AllReadings) =>
        /\ (risk_out.risk = "yellow") <=> (~RuleRed /\ RuleYellow)
        /\ (row = ScenarioYellow) => risk_out.risk = "yellow"

\* C3 witness: the yellow scenario, classified yellow.
C3_Witness ==
    /\ Classified /\ row = ScenarioYellow
    /\ ~RuleRed /\ RuleYellow
    /\ risk_out.risk = "yellow"

\* C4: a record outside the no-data case is classified green exactly when no
\* red clause and no yellow clause holds; the green scenario of the
\* specification (intensity_min absent) is green.
C4_GreenIffNoClause ==
    (Classified /\ AllReadings /\ ~RuleNoData) =>
        /\ (risk_out.risk = "green") <=> (~RuleRed /\ ~RuleYellow)
        /\ (row = ScenarioGreen) => risk_out.risk = "green"

\* C4 witness: the green scenario, classified green, intensity_min absent.
C4_Witness ==
    /\ Classified /\ row = ScenarioGreen
    /\ row["Intensity_min"].kind = "missing"
    /\ ~RuleNoData /\ ~RuleRed /\ ~RuleYellow
    /\ risk_out.risk = "green"

AllNumeric ==
    \A f \in Fields \ {"Calories"} : row[f].kind = "num"

\* C5: over numeric input the classifier is total: for every combination of
\* numbers in the seven fields it reads it returns, without raising, one pair
\* whose level is green, yellow or red.
C5_TotalOverNumbers ==
    (Classified /\ AllNumeric) =>
        /\ risk_out.status = "ok"
        /\ risk_out.risk \in {"green", "yellow", "red"}
        /\ Cardinality({p \in {GreenPair, YellowPair, RedPair} : p = risk_out}) = 1

\* C5 witness: an all-numeric record that is not in the no-data case and
\* matches no clause, with a negative sleep value, classified.
C5_Witness ==
    /\ Classified /\ AllNumeric
    /\ ~RuleNoData /\ ~RuleRed /\ ~RuleYellow
    /\ R_sleep < 0
    /\ risk_out.status = "ok"

\* C6: the recommendation depends only on the level, on every path including
\* the no-data early return: green, yellow and red each come with their one
\* fixed text.
C6_RecommendationByLevel ==
    (Classified /\ risk_out.status = "ok") =>
        /\ risk_out.risk = "green" =>
              risk_out.rec = "Continue normal activity. Stay hydrated."
        /\ risk_out.risk = "yellow" =>
              risk_out.rec = "Monitor vital signs. Consider rest and hydration soon."
        /\ risk_out.risk = "red" =>
              risk_out.rec = "Heat stress or fatigue risk. Rest and rehydrate. Seek shade. Recommend rest in 10 min."

\* C6 witness: the early return taken by a record with no field at all.
C6_Witness ==
    /\ Classified /\ row = Empty
    /\ risk_out.risk = "green"
    /\ risk_out.rec = "Continue normal activity. Stay hydrated."

\* Every field other than hr_avg at a value that triggers no clause
OthersQuiet ==
    /\ R_hr_max <= 10000
    /\ (R_spo2 = 0 \/ R_spo2 >= 9500)
    /\ R_intensity <= 2000
    /\ R_steps <= 500000

\* C7: with every other field triggering no clause, hr_avg = 85 is green,
\* every hr_avg in (85, 100] (100 included) is yellow and not red, and every
\* hr_avg > 100 (100.01, 100.1) is red.
C7_StrictThresholds ==
    (Classified /\ AllReadings /\ OthersQuiet) =>
        /\ R_hr_avg = 8500 => risk_out.risk = "green"
        /\ (8500 < R_hr_avg /\ R_hr_avg <= 10000) => risk_out.risk = "yellow"
        /\ R_hr_avg > 10000 => risk_out.risk = "red"

\* C7 witness: hr_avg exactly 100 with the other fields quiet, classified
\* yellow.
C7_Witness ==
    /\ Classified /\ AllReadings /\ OthersQuiet
    /\ R_hr_avg = 10000
    /\ R_hr_max = 10000 /\ R_spo2 = 9500 /\ R_intensity = 2000 /\ R_steps = 500000
    /\ risk_out.risk = "yellow"

(***************************************************************************)
(* Properties over rows that hold any kind of value (SpecKinds)            *)
(***************************************************************************)
\* A missing key, None, 0 or a negative number
AbsentLike(x) == x.kind \in {"missing", "none"} \/ (x.kind = "num" /\ x.v <= 0)

AbsentValues == {Missing, NoneVal, Num(0), Num(-1), Num(-Units(1))}

\* No field holds NaN or a string
OnlyReadingsOrAbsent == \A f \in Fields : row[f].kind \in {"num", "missing", "none"}

\* C8: a missing key, None, 0 and a negative number are interchangeable in
\* every field: replacing one by another changes neither the output of
\* assign_risk_and_recommendation nor that of vitals_to_text, and neither
\* call raises.
C8_AbsentInterchangeable ==
    /\ Classified =>
          /\ OnlyReadingsOrAbsent => risk_out.status = "ok"
          /\ \A f \in Fields : AbsentLike(row[f]) =>
                \A x \in AbsentValues :
                    assign_risk_and_recommendation([row EXCEPT ![f] = x]) = risk_out
    /\ Rendered =>
          /\ OnlyReadingsOrAbsent => text_out.status = "ok"
          /\ \A f \in Fields : AbsentLike(row[f]) =>
                \A x \in AbsentValues :
                    vitals_to_text([row EXCEPT ![f] = x]) = text_out

\* C8 witness: sleep is None beside 50 active minutes; the row is classified
\* red (as with sleep 0) and rendered without a sleep segment.
C8_Witness ==
    /\ Classified /\ Rendered
    /\ row["Sleep_total_min"] = NoneVal
    /\ R_intensity = 5000 /\ R_hr_avg = 6200 /\ R_hr_max = 8000 /\ R_spo2 = 9800
    /\ risk_out.risk = "red"
    /\ text_out.status = "ok"

\* C9: a NaN field is defaulted to 0: replacing a NaN field by 0 leaves the
\* level returned by assign_risk_and_recommendation unchanged.
C9_NaNIsZero ==
    Classified =>
        \A f \in Fields : row[f].kind = "nan" =>
            assign_risk_and_recommendation([row EXCEPT ![f] = Num(0)]).risk
                = risk_out.risk

\* C10: a field holding a non-numeric string is treated as absent: both
\* functions return what they return for the row without that field, and
\* do not raise.
C10_NonNumericIsAbsent ==
    /\ Classified =>
          \A f \in Fields : row[f].kind = "str" =>
              /\ risk_out.status = "ok"
              /\ risk_out = assign_risk_and_recommendation([row EXCEPT ![f] = Missing])
    /\ Rendered =>
          \A f \in Fields : row[f].kind = "str" =>
              /\ text_out.status = "ok"
              /\ text_out = vitals_to_text([row EXCEPT ![f] = Missing])

(***************************************************************************)
(* Properties of vitals_to_text                                            *)
(***************************************************************************)
\* The order in which the sentence lists the fields
SentenceOrder ==
    <<"HR_avg", "HR_max", "HR_resting", "SpO2_avg", "Steps", "Intensity_min",
      "Calories", "Sleep_total_min">>

\* The integer part of a positive reading
Whole(f) == Reading(f) \div 100

\* The segment a present field contributes
SegmentOf(f) ==
    CASE f = "HR_avg" -> "HR average " \o ToString(Whole(f)) \o " bpm"
      [] f = "HR_max" -> "HR max " \o ToString(Whole(f)) \o " bpm"
      [] f = "HR_resting" -> "resting HR " \o ToString(Whole(f)) \o " bpm"
      [] f = "SpO2_avg" -> "SpO2 " \o ToString(Whole(f)) \o " percent"
      [] f = "Steps" -> "steps " \o ToString(Whole(f))
      [] f = "Intensity_min" -> "active " \o ToString(Whole(f)) \o " minutes"
      [] f = "Calories" -> "calories " \o ToString(Whole(f))
      [] OTHER -> "sleep " \o ToString(Whole(f) \div 60) \o "h"
                     \o ToString(Whole(f) % 60) \o "m"

RECURSIVE SentenceFrom(_)
\* The segments of the present fields from position i on, separated by spaces
SentenceFrom(i) ==
    IF i > Len(SentenceOrder) THEN ""
    ELSE LET rest == SentenceFrom(i + 1)
             f == SentenceOrder[i]
         IN IF Reading(f) > 0
            THEN IF rest = "" THEN SegmentOf(f) ELSE SegmentOf(f) \o " " \o rest
            ELSE rest

SomePresent == \E f \in Fields : Reading(f) > 0

\* C11: the sentence of vitals_to_text holds one segment for each field whose
\* value is > 0 and none for any other field, in the order HR average, HR
\* max, resting HR, SpO2, steps, active minutes, calories, sleep;
\* {hr_avg 65, sleep_total_min 90} gives "HR average 65 bpm sleep 1h30m".
C11_SegmentsInOrder ==
    (Rendered /\ AllReadings) =>
        /\ SomePresent => text_out = [status |-> "ok", text |-> SentenceFrom(1)]
        /\ row = ScenarioText => text_out.text = "HR average 65 bpm sleep 1h30m"

\* C11 witness: the example row rendered, two of eight fields present.
C11_Witness ==
    /\ Rendered /\ row = ScenarioText
    /\ Cardinality({f \in Fields : Reading(f) > 0}) = 2
    /\ text_out.text = "HR average 65 bpm sleep 1h30m"

\* C12: vitals_to_text returns exactly "No vital signs recorded." if and only
\* if none of the eight fields has a value > 0.
C12_NoVitalsIffNonePresent ==
    (Rendered /\ AllReadings) =>
        /\ text_out.status = "ok"
        /\ (text_out.text = "No vital signs recorded.") <=> ~SomePresent

\* C12 witness: a rendered row whose eight fields are all 0 or negative
\* numbers, HR average negative.
C12_Witness ==
    /\ Rendered
    /\ \A f \in Fields : row[f].kind = "num" /\ row[f].v <= 0
    /\ row["HR_avg"].v < 0 /\ row["Steps"].v = 0
    /\ text_out.text = "No vital signs recorded."

\* text ends with the segment seg, after a space unless it is the whole text
EndsWithSegment(text, seg) ==
    /\ Len(text) >= Len(seg)
    /\ SubSeq(text, Len(text) - Len(seg) + 1, Len(text)) = seg
    /\ Len(text) > Len(seg) =>
          /\ Len(text) > Len(seg) + 1
          /\ SubSeq(text, Len(text) - Len(seg), Len(text) - Len(seg)) = " "

\* C13: for sleep_total_min > 0 the sleep segment is "sleep <H>h<M>m" with
\* H = floor(n / 60), M = n mod 60, n the integer part of sleep_total_min;
\* 0 <= M <= 59 and 60*H + M = n.
C13_SleepSegment ==
    (Rendered /\ AllReadings /\ R_sleep > 0) =>
        LET n == R_sleep \div 100
            H == n \div 60
            M == n % 60
        IN /\ 0 <= M /\ M <= 59 /\ 60 * H + M = n
           /\ text_out.status = "ok"
           /\ EndsWithSegment(text_out.text,
                  "sleep " \o ToString(H) \o "h" \o ToString(M) \o "m")

\* C13 witness: sleep 299.99 minutes beside other fields, rendered with the
\* segment "sleep 4h59m" last.
C13_Witness ==
    /\ Rendered /\ AllReadings
    /\ R_sleep = 29999 /\ R_hr_avg > 0 /\ Reading("Calories") > 0
    /\ EndsWithSegment(text_out.text, "sleep 4h59m")

(***************************************************************************)
(* The dataset builder: load_daily_summary, build_dataset, main            *)
(***************************************************************************)
\* A line of health_daily_summary.csv: whether its Date parses, and its
\* vitals.  pd.to_datetime(errors="coerce") turns a Date that does not parse
\* into NaT and dropna(subset=["Date"]) drops the line.
CsvLine(valid, r) == [date_ok |-> valid, vitals |-> r]

\* if not path.exists(): return pd.DataFrame(); else the lines whose Date
\* is valid, in file order
load_daily_summary(c) ==
    IF ~c.exists THEN <<>>
    ELSE LET kept == SelectSeq(c.lines, LAMBDA l : l.date_ok)
         IN [i \in 1..Len(kept) |-> kept[i].vitals]

synthetic_examples ==
    <<
      [text |-> "HR average 58 bpm HR max 75 resting HR 52 SpO2 99 percent steps 1200 active 3 minutes sleep 7h",
       risk_level |-> "green", recommendation |-> RecGreen],
      [text |-> "HR average 62 bpm HR max 80 SpO2 98 percent steps 2000 sleep 6h30m",
       risk_level |-> "green", recommendation |-> RecGreen],
      [text |-> "HR average 65 bpm HR max 82 resting HR 55 SpO2 98 percent steps 1500 active 5 minutes sleep 7h",
       risk_level |-> "green", recommendation |-> RecGreen],
      [text |-> "HR average 68 bpm HR max 88 resting HR 60 SpO2 97 percent steps 2500 active 8 minutes sleep 6h",
       risk_level |-> "green", recommendation |-> RecGreen],
      [text |-> "HR average 70 bpm HR max 90 SpO2 97 percent steps 3000 sleep 6h",
       risk_level |-> "green", recommendation |-> RecGreen],
      [text |-> "HR average 72 bpm HR max 92 resting HR 64 steps 1800 active 10 minutes sleep 8h",
       risk_level |-> "green", recommendation |-> RecGreen],
      [text |-> "HR average 75 bpm HR max 95 SpO2 96 percent steps 3500 active 12 minutes calories 180 sleep 5h30m",
       risk_level |-> "green", recommendation |-> RecGreen],
      [text |-> "HR average 78 bpm HR max 98 resting HR 66 steps 4000 active 15 minutes sleep 5h",
       risk_level |-> "green", recommendation |-> RecGreen],
      [text |-> "SpO2 98 percent steps 2200 sleep 7h calories 150",
       risk_level |-> "green", recommendation |-> RecGreen],
      [text |-> "HR average 64 bpm HR max 78 SpO2 99 percent active 2 minutes sleep 8h",
       risk_level |-> "green", recommendation |-> RecGreen],
      [text |-> "HR average 84 bpm HR max 102 SpO2 96 percent steps 5500 active 22 minutes sleep 4h",
       risk_level |-> "yellow", recommendation |-> RecYellow],
      [text |-> "HR average 86 bpm HR max 108 resting HR 72 steps 6000 active 25 minutes sleep 3h30m",
       risk_level |-> "yellow", recommendation |-> RecYellow],
      [text |-> "HR average 88 bpm HR max 105 SpO2 95 percent steps 5000 active 25 minutes sleep 4h",
       risk_level |-> "yellow", recommendation |-> RecYellow],
      [text |-> "HR average 90 bpm HR max 112 resting HR 78 steps 6500 active 28 minutes calories 420 sleep 3h",
       risk_level |-> "yellow", recommendation |-> RecYellow],
      [text |-> "HR average 92 bpm HR max 115 SpO2 94 percent steps 7000 active 30 minutes sleep 2h",
       risk_level |-> "yellow", recommendation |-> RecYellow],
      [text |-> "HR average 82 bpm HR max 105 resting HR 69 steps 2276 active 17 minutes calories 175",
       risk_level |-> "yellow", recommendation |-> RecYellow],
      [text |-> "HR average 85 bpm HR max 100 SpO2 93 percent steps 4500 active 35 minutes sleep 1h",
       risk_level |-> "yellow", recommendation |-> RecYellow],
      [text |-> "HR average 87 bpm HR max 110 resting HR 74 steps 5800 active 20 minutes sleep 4h",
       risk_level |-> "yellow", recommendation |-> RecYellow],
      [text |-> "HR average 91 bpm HR max 118 SpO2 94 percent active 38 minutes sleep 2h30m",
       risk_level |-> "yellow", recommendation |-> RecYellow],
      [text |-> "HR average 83 bpm HR max 98 steps 5200 active 24 minutes sleep 5h",
       risk_level |-> "yellow", recommendation |-> RecYellow],
      [text |-> "HR average 89 bpm HR max 106 SpO2 95 percent steps 6200 active 26 minutes calories 380",
       risk_level |-> "yellow", recommendation |-> RecYellow],
      [text |-> "HR average 94 bpm HR max 116 resting HR 80 steps 7500 active 32 minutes sleep 1h30m",
       risk_level |-> "yellow", recommendation |-> RecYellow],
      [text |-> "HR average 108 bpm HR max 125 SpO2 87 percent steps 8000 active 50 minutes sleep 0h",
       risk_level |-> "red", recommendation |-> RecRed],
      [text |-> "HR average 105 bpm HR max 122 SpO2 88 percent active 45 minutes",
       risk_level |-> "red", recommendation |-> RecRed],
      [text |-> "HR average 102 bpm HR max 118 SpO2 89 percent steps 7000 sleep 0h30m",
       risk_level |-> "red", recommendation |-> RecRed],
      [text |-> "HR average 112 bpm HR max 128 SpO2 86 percent steps 9000 active 55 minutes sleep 0h",
       risk_level |-> "red", recommendation |-> RecRed],
      [text |-> "HR average 110 bpm HR max 130 resting HR 95 SpO2 85 percent steps 8500 active 52 minutes",
       risk_level |-> "red", recommendation |-> RecRed],
      [text |-> "HR average 106 bpm HR max 124 SpO2 88 percent active 48 minutes sleep 0h20m",
       risk_level |-> "red", recommendation |-> RecRed],
      [text |-> "HR average 115 bpm HR max 132 SpO2 84 percent steps 10000 active 60 minutes calories 650",
       risk_level |-> "red", recommendation |-> RecRed],
      [text |-> "HR average 104 bpm HR max 120 SpO2 87 percent steps 7200 active 46 minutes sleep 0h",
       risk_level |-> "red", recommendation |-> RecRed],
      [text |-> "HR average 118 bpm HR max 135 SpO2 83 percent active 58 minutes sleep 0h15m",
       risk_level |-> "red", recommendation |-> RecRed],
      [text |-> "HR average 100 bpm HR max 121 SpO2 86 percent steps 6800 active 50 minutes sleep 0h25m",
       risk_level |-> "red", recommendation |-> RecRed],
      [text |-> "SpO2 85 percent HR average 109 bpm HR max 126 steps 7800 active 54 minutes",
       risk_level |-> "red", recommendation |-> RecRed],
      [text |-> "HR average 113 bpm HR max 129 SpO2 86 percent resting HR 92 active 56 minutes sleep 0h",
       risk_level |-> "red", recommendation |-> RecRed],
      [text |-> "HR average 98 bpm HR max 119 SpO2 91 percent steps 6000 active 42 minutes sleep 0h45m",
       risk_level |-> "yellow", recommendation |-> RecYellow],
      [text |-> "HR average 97 bpm HR max 118 SpO2 92 percent active 40 minutes sleep 1h",
       risk_level |-> "yellow", recommendation |-> RecYellow],
      [text |-> "HR average 80 bpm HR max 96 resting HR 68 steps 4200 active 18 minutes sleep 5h",
       risk_level |-> "green", recommendation |-> RecGreen],
      [text |-> "HR average 99 bpm HR max 120 SpO2 90 percent steps 6500 active 44 minutes sleep 0h30m",
       risk_level |-> "red", recommendation |-> RecRed],
      [text |-> "HR average 81 bpm HR max 99 steps 3800 active 16 minutes sleep 5h30m",
       risk_level |-> "green", recommendation |-> RecGreen]
    >>

\* {"text": text, "risk_level": risk, "recommendation": rec}
RowOut(t, k) == [text |-> t.text, risk_level |-> k.risk, recommendation |-> k.rec]

\* A row as pandas reads it from a CSV with an empty Sleep_total_min cell
NaNRow ==
    [f \in Fields |->
        IF f = "Intensity_min" THEN Num(Units(50))
        ELSE IF f = "HR_avg" THEN Num(Units(62))
        ELSE NaN]

\* A row whose HR_avg cell holds text
StrRow == [ScenarioGreen EXCEPT !["HR_avg"] = Str]

RowPool == {ScenarioRed, ScenarioYellow, ScenarioText, NaNRow, StrRow}

SeqsUpTo(S, n) == UNION {[1..k -> S] : k \in 0..n}

Frames == SeqsUpTo(RowPool, MaxRows)

CsvFiles ==
    {NoFile} \cup
    {[exists |-> TRUE, lines |-> l] :
        l \in SeqsUpTo({CsvLine(valid, r) : valid \in BOOLEAN, r \in RowPool}, MaxRows)}

\* Either main() is run on a CSV file, or build_dataset(df) is called on a
\* frame.
InitMain ==
    /\ row = Empty
    /\ risk_out = Pending
    /\ text_out = PendingText
    /\ \/ entry = "main" /\ csv \in CsvFiles /\ df = <<>> /\ pc = "main"
       \/ entry = "build_dataset" /\ csv = NoFile /\ df \in Frames /\ pc = "loop"
    /\ idx = 0
    /\ rows = <<>>
    /\ out_file = NothingWritten
    /\ ret = -1
    /\ StoreIdle
    /\ ExportIdle
    /\ PoolIdle

\* df = load_daily_summary(); if df.empty: print(...); return 1
M_Load ==
    /\ pc = "main"
    /\ df' = load_daily_summary(csv)
    /\ IF df' = <<>>
       THEN ret' = 1 /\ pc' = "exit"
       ELSE ret' = ret /\ pc' = "loop"
    /\ UNCHANGED <<csv, idx, rows, entry, out_file, vitalsVars, storeVars, exportVars, poolVars>>

\* One iteration of "for _, row in df.iterrows()": the two calls and the
\* append.  An exception of either call leaves build_dataset (and main).
B_Row_sticky ==
    /\ pc = "loop"
    /\ idx < Len(df)
    /\ row' = df[idx + 1]
    /\ text_out' = vitals_to_text(row')
    /\ risk_out' = IF risk_out.risk = "red" THEN risk_out
                   ELSE assign_risk_and_recommendation(row')
    /\ rows' = Append(rows, RowOut(text_out', risk_out'))
    /\ idx' = idx + 1
    /\ UNCHANGED <<csv, df, pc, entry, out_file, ret, storeVars, exportVars, poolVars>>
B_Row ==
    /\ pc = "loop"
    /\ idx < Len(df)
    /\ row' = df[idx + 1]
    /\ text_out' = vitals_to_text(row')
    /\ IF text_out'.status # "ok"
       THEN /\ pc' = "raised"
            /\ UNCHANGED <<risk_out, rows, idx>>
       ELSE /\ risk_out' = assign_risk_and_recommendation(row')
            /\ IF risk_out'.status # "ok"
               THEN /\ pc' = "raised"
                    /\ UNCHANGED <<rows, idx>>
               ELSE /\ rows' = Append(rows, RowOut(text_out', risk_out'))
                    /\ idx' = idx + 1
                    /\ pc' = pc
    /\ UNCHANGED <<csv, df, entry, out_file, ret, storeVars, exportVars, poolVars>>

\* rows.extend(synthetic_examples()); return pd.DataFrame(rows)
B_Extend_first ==
    /\ pc = "loop"
    /\ idx = Len(df)
    /\ rows' = synthetic_examples \o rows
    /\ pc' = IF entry = "main" THEN "built" ELSE "exit"
    /\ UNCHANGED <<csv, df, idx, entry, out_file, ret, vitalsVars, storeVars, exportVars, poolVars>>
B_Extend ==
    /\ pc = "loop"
    /\ idx = Len(df)
    /\ rows' = rows \o synthetic_examples
    /\ pc' = IF entry = "main" THEN "built" ELSE "exit"
    /\ UNCHANGED <<csv, df, idx, entry, out_file, ret, vitalsVars, storeVars, exportVars, poolVars>>

\* out.to_csv(out_path, index=False); ...; return 0
M_Write ==
    /\ pc = "built"
    /\ out_file' = [written |-> TRUE, rows |-> rows]
    /\ ret' = 0
    /\ pc' = "exit"
    /\ UNCHANGED <<csv, df, idx, rows, entry, vitalsVars, storeVars, exportVars, poolVars>>

NextMain == M_Load \/ B_Row \/ B_Extend \/ M_Write

SpecMain == InitMain /\ [][NextMain]_vars

(***************************************************************************)
(* Properties of the dataset builder (SpecMain)                            *)
(***************************************************************************)
\* The rows of the frame processed so far
Processed == 1..idx

\* C14: vitals_to_text and assign_risk_and_recommendation are pure: a call
\* leaves the input row unchanged (the frame never changes once loaded, and
\* the row just processed is still the frame's row), and the result for a
\* record does not depend on the calls made before it: equal records of one
\* frame get equal output rows, whatever precedes them.
C14_Pure ==
    /\ [](/\ (pc # "raised" /\ idx > 0) => row = df[idx]
          /\ pc = "raised" => row = df[idx + 1]
          /\ \A i \in Processed : \A j \in Processed :
                df[i] = df[j] => rows[i] = rows[j])
    /\ [][pc # "main" => df' = df]_vars

\* C14 witness: three rows processed, the first and third equal and the
\* second of another level; the first and third output rows are equal.
C14_Witness ==
    /\ pc = "loop" /\ idx = 3
    /\ df[1] = df[3] /\ df[2] # df[1]
    /\ rows[2].risk_level = "red" /\ rows[1].risk_level = "green"
    /\ rows[1] = rows[3]
    /\ row = df[3]

\* C15: build_dataset maps each record and appends a fixed suffix: for n
\* input rows the output has n + 39 rows, output row i is {text, risk_level,
\* recommendation} of input row i alone, in input order, and the last 39
\* rows are the synthetic examples.
C15_MapThenSuffix ==
    (pc \in {"built", "exit"} /\ (entry = "build_dataset" \/ ret # 1)) =>
        LET n == Len(df)
        IN /\ Len(rows) = n + 39
           /\ \A i \in 1..n :
                 rows[i] = [text |-> vitals_to_text(df[i]).text,
                            risk_level |-> assign_risk_and_recommendation(df[i]).risk,
                            recommendation |-> assign_risk_and_recommendation(df[i]).rec]
           /\ SubSeq(rows, n + 1, n + 39) = synthetic_examples

\* C15 witness: build_dataset returned for three input rows, two of them
\* different, with 42 output rows.
C15_Witness ==
    /\ entry = "build_dataset" /\ pc = "exit"
    /\ Len(df) = 3 /\ df[1] # df[2]
    /\ Len(rows) = 42
    /\ rows[1].risk_level # rows[2].risk_level
    /\ rows[42].text = "HR average 81 bpm HR max 99 steps 3800 active 16 minutes sleep 5h30m"

\* The file is missing or holds no line with a valid date
NoValidLine == ~csv.exists \/ \A i \in 1..Len(csv.lines) : ~csv.lines[i].date_ok

\* C16: main returns 1 and writes nothing when the input is missing or has no
\* row with a valid date; in every other case it writes the dataset and
\* returns 0; the classifier and the text extractor never make it fail.
C16_MainFailsOnlyOnNoInput ==
    entry = "main" =>
        /\ pc # "raised"
        /\ pc = "exit" =>
              IF NoValidLine
              THEN ret = 1 /\ ~out_file.written
              ELSE ret = 0 /\ out_file.written

(***************************************************************************)
(* The WorldService entity store (mesh/proto/server.py), calls served one  *)
(* at a time.  The dict `entities` is a sequence of entities with distinct *)
(* ids, in insertion order; an entity is [id, label].                      *)
(***************************************************************************)
Labels == {"", "ab"}
FilterLabels == {"", "a", "b", "ab", "ba"}

Entity == [id : EntityIds, label : Labels]
Filter == [id : EntityIds, label : FilterLabels]
ChangeLists == UNION {[1..k -> Entity] : k \in 0..MaxChanges}

\* key in entities
HasKey(store, id) == \E i \in 1..Len(store) : store[i].id = id

KeyIndex(store, id) == CHOOSE i \in 1..Len(store) : store[i].id = id

\* entities.get(key): <<entity>>, or <<>> for None
dict_get(store, id) == IF HasKey(store, id) THEN <<store[KeyIndex(store, id)]>> ELSE <<>>

\* entities[entity.id] = entity: an existing key keeps its position
dict_set_keepfirst(store, e) ==
    IF HasKey(store, e.id) THEN store ELSE Append(store, e)
dict_set(store, e) ==
    IF HasKey(store, e.id)
    THEN [store EXCEPT ![KeyIndex(store, e.id)] = e]
    ELSE Append(store, e)

\* del entities[key], for a key that is present
dict_del_popitem(store, id) == SubSeq(store, 1, Len(store) - 1)
dict_del(store, id) == SelectSeq(store, LAMBDA e : e.id # id)

\* bool(entity) of a protobuf message: a message defines neither __bool__
\* nor __len__, so every message is truthy
MsgTruthy(e) == TRUE

RECURSIVE StartsAt(_, _, _)
\* Does sub occur in str at offset i or later?
StartsAt(str, sub, i) ==
    IF i + Len(sub) > Len(str) THEN FALSE
    ELSE IF SubSeq(str, i + 1, i + Len(sub)) = sub THEN TRUE
    ELSE StartsAt(str, sub, i + 1)

\* sub in str
StrIn(sub, str) == StartsAt(str, sub, 0)

_matches_filter_eq(entity, filter_pb) ==
    IF filter_pb.id # "" /\ filter_pb.id # entity.id THEN FALSE
    ELSE IF filter_pb.label # "" /\ filter_pb.label # entity.label THEN FALSE
    ELSE TRUE
_matches_filter(entity, filter_pb) ==
    IF filter_pb.id # "" /\ filter_pb.id # entity.id THEN FALSE
    ELSE IF filter_pb.label # "" /\ ~StrIn(filter_pb.label, entity.label) THEN FALSE
    ELSE TRUE

RECURSIVE PushAll_reversed(_, _)
PushAll_reversed(store, changes) ==
    IF changes = <<>> THEN store
    ELSE dict_set(PushAll_reversed(store, Tail(changes)), Head(changes))

RECURSIVE PushAll(_, _)
\* for entity in request.changes: entities[entity.id] = entity
PushAll(store, changes) ==
    IF changes = <<>> THEN store
    ELSE PushAll(dict_set(store, Head(changes)), Tail(changes))

Call(op, id, changes, filter, code, accepted, found) ==
    [op |-> op, id |-> id, changes |-> changes, filter |-> filter,
     code |-> code, accepted |-> accepted, found |-> found]

NoFilter == [id |-> "", label |-> ""]

Snapshot == [entities |-> entities, expired |-> expired]

InitStore ==
    /\ row = Empty
    /\ risk_out = Pending
    /\ text_out = PendingText
    /\ MainIdle
    /\ StoreIdle
    /\ ExportIdle
    /\ PoolIdle

ListEntities(filter) ==
    /\ last' = Call("ListEntities", "", <<>>, filter, "OK", FALSE,
                    SelectSeq(entities, LAMBDA e : _matches_filter(e, filter)))
    /\ before' = Snapshot
    /\ UNCHANGED <<entities, expired, recent, vitalsVars, mainVars, exportVars, poolVars>>

GetEntity_pop(id) ==
    /\ IF HasKey(entities, id)
       THEN /\ last' = Call("GetEntity", id, <<>>, NoFilter, "OK", FALSE, dict_get(entities, id))
            /\ entities' = dict_del(entities, id)
       ELSE /\ last' = Call("GetEntity", id, <<>>, NoFilter, "NOT_FOUND", FALSE, <<>>)
            /\ entities' = entities
    /\ before' = Snapshot
    /\ UNCHANGED <<expired, recent, vitalsVars, mainVars, exportVars, poolVars>>
GetEntity(id) ==
    /\ LET entity == dict_get(entities, id)
       IN IF entity # <<>> /\ MsgTruthy(entity[1])
          THEN last' = Call("GetEntity", id, <<>>, NoFilter, "OK", FALSE, entity)
          ELSE last' = Call("GetEntity", id, <<>>, NoFilter, "NOT_FOUND", FALSE, <<>>)
    /\ before' = Snapshot
    /\ UNCHANGED <<entities, expired, recent, vitalsVars, mainVars, exportVars, poolVars>>

Push(changes) ==
    /\ entities' = PushAll(entities, changes)
    /\ last' = Call("Push", "", changes, NoFilter, "OK", TRUE, <<>>)
    /\ before' = Snapshot
    /\ expired' = expired \ {changes[i].id : i \in 1..Len(changes)}
    /\ recent' = [id \in EntityIds |->
                     LET occ == {i \in 1..Len(changes) : changes[i].id = id}
                     IN IF occ = {} THEN recent[id]
                        ELSE [op |-> "Push",
                              entity |-> <<changes[CHOOSE i \in occ : \A j \in occ : j <= i]>>]]
    /\ UNCHANGED <<vitalsVars, mainVars, exportVars, poolVars>>

ExpireEntity(id) ==
    /\ IF HasKey(entities, id)
       THEN /\ entities' = dict_del(entities, id)
            /\ last' = Call("ExpireEntity", id, <<>>, NoFilter, "OK", FALSE, <<>>)
       ELSE /\ entities' = entities
            /\ last' = Call("ExpireEntity", id, <<>>, NoFilter, "NOT_FOUND", FALSE, <<>>)
    /\ before' = Snapshot
    /\ expired' = expired \cup {id}
    /\ recent' = IF HasKey(entities, id)
                 THEN [recent EXCEPT ![id] = [op |-> "ExpireEntity", entity |-> <<>>]]
                 ELSE recent
    /\ UNCHANGED <<vitalsVars, mainVars, exportVars, poolVars>>

ListCall == \E f \in Filter : ListEntities(f)
GetCall == \E id \in EntityIds : GetEntity(id)
PushCall == \E ch \in ChangeLists : Push(ch)
ExpireCall == \E id \in EntityIds : ExpireEntity(id)

NextStore == ListCall \/ GetCall \/ PushCall \/ ExpireCall

SpecStore == InitStore /\ [][NextStore]_vars

(***************************************************************************)
(* Properties of the entity store (SpecStore)                              *)
(***************************************************************************)
\* The entities a store holds, and those it holds under an id
Held(store) == {store[i] : i \in 1..Len(store)}
HeldUnder(store, id) == {e \in Held(store) : e.id = id}

\* One entry per id
OnePerId(store) ==
    \A i \in 1..Len(store) : \A j \in 1..Len(store) : store[i].id = store[j].id => i = j

\* C17: after Push(changes), every id occurring in changes maps to the last
\* entity of changes carrying it, every other id maps to what it mapped to
\* before, and the response has accepted = true; for any list of changes,
\* the empty list and repeated ids included.
C17_PushCreatesOrUpdates ==
    last.op = "Push" =>
        /\ last.accepted = TRUE
        /\ OnePerId(entities)
        /\ \A id \in EntityIds :
              LET occ == {i \in 1..Len(last.changes) : last.changes[i].id = id}
              IN IF occ = {}
                 THEN HeldUnder(entities, id) = HeldUnder(before.entities, id)
                 ELSE HeldUnder(entities, id) =
                          {last.changes[CHOOSE i \in occ : \A j \in occ : j <= i]}

\* C17 witness: a Push of two changes with the same id and different labels,
\* onto a store that held that id and another one.
C17_Witness ==
    /\ last.op = "Push" /\ Len(last.changes) = 2
    /\ last.changes[1].id = last.changes[2].id
    /\ last.changes[1].label # last.changes[2].label
    /\ HeldUnder(before.entities, last.changes[1].id) = {last.changes[1]}
    /\ Len(before.entities) = 2
    /\ HeldUnder(entities, last.changes[1].id) = {last.changes[2]}

\* C18: GetEntity(id) returns the entity stored under id when the id is
\* present, and otherwise sets NOT_FOUND and returns an empty response; the
\* store is left unchanged in both cases.
C18_GetEntity ==
    last.op = "GetEntity" =>
        /\ entities = before.entities
        /\ IF HeldUnder(before.entities, last.id) # {}
           THEN /\ last.code = "OK"
                /\ Len(last.found) = 1
                /\ HeldUnder(before.entities, last.id) = {last.found[1]}
           ELSE /\ last.code = "NOT_FOUND"
                /\ last.found = <<>>

\* C18 witness: GetEntity of a present id on a store of two entities.
C18_Witness ==
    /\ last.op = "GetEntity" /\ last.id = "e1"
    /\ Len(entities) = 2
    /\ last.code = "OK"
    /\ last.found = <<[id |-> "e1", label |-> "ab"]>>

\* C19: ExpireEntity(id) removes exactly the entry of id and leaves the other
\* entries unchanged when id is present; when id is absent it sets NOT_FOUND
\* and leaves the store unchanged.  Hence an ExpireEntity(id) that follows
\* an ExpireEntity(id) with no Push of id in between reports NOT_FOUND.
C19_ExpireEntity ==
    last.op = "ExpireEntity" =>
        /\ IF HeldUnder(before.entities, last.id) # {}
           THEN /\ HeldUnder(entities, last.id) = {}
                /\ Len(entities) = Len(before.entities) - 1
                /\ \A id \in EntityIds \ {last.id} :
                      HeldUnder(entities, id) = HeldUnder(before.entities, id)
           ELSE /\ last.code = "NOT_FOUND"
                /\ entities = before.entities
        /\ last.id \in before.expired => last.code = "NOT_FOUND"

\* C19 witness: a repeated ExpireEntity of an id, reporting NOT_FOUND, on a
\* store that still holds other entities.
C19_Witness ==
    /\ last.op = "ExpireEntity" /\ last.id = "e1"
    /\ last.id \in before.expired
    /\ last.code = "NOT_FOUND"
    /\ Len(entities) = 2

\* entity matches filter: a non-empty filter id equals the entity id, and a
\* non-empty filter label occurs in the entity label
Matches(e, f) ==
    /\ f.id = "" \/ f.id = e.id
    /\ f.label = "" \/
          \E i \in 1..Len(e.label) : \E j \in i..Len(e.label) :
              SubSeq(e.label, i, j) = f.label

\* C20: ListEntities returns exactly the stored entities that match the
\* filter (each once); with an empty filter it returns every stored entity;
\* the store is not modified.
C20_ListEntities ==
    last.op = "ListEntities" =>
        /\ entities = before.entities
        /\ Held(last.found) = {e \in Held(entities) : Matches(e, last.filter)}
        /\ OnePerId(last.found)
        /\ last.filter = [id |-> "", label |-> ""] => last.found = entities

\* C20 witness: a label filter "b" that selects the one entity labelled "ab"
\* out of a store of three.
C20_Witness ==
    /\ last.op = "ListEntities"
    /\ last.filter = [id |-> "", label |-> "b"]
    /\ Len(entities) = 3
    /\ Len(last.found) = 1 /\ last.found[1].label = "ab"

(***************************************************************************)
(* ml/export_to_tflite.py: main and the three exports.  An export returns  *)
(* "True" or "False", or raises (an error while training or converting,    *)
(* which main does not catch).                                             *)
(***************************************************************************)
\* What subprocess.run does with one command of try_optimum_export: return
\* code 0, another return code, or one of the two exceptions handled
CmdOutcomes ==
    {"rc0", "rc_nonzero", "FileNotFoundError", "TimeoutExpired", "PermissionError"}

\* The command line: the two flags of the parser, and what else it holds
\* (nothing, -h/--help, or an argument the parser does not know)
Args == [for_mediapipe : BOOLEAN, use_keras_only : BOOLEAN,
         other : {"none", "help", "unknown"}]

\* What the run finds: SAVED_MODEL and DATASET_CSV exist or not, the
\* imports succeed or not, the outcome of each of the two commands,
\* whether training and conversion run through, and whether ml/tflite can
\* be made a directory (it cannot when a file of that name exists)
Worlds == [saved_model : BOOLEAN, dataset : BOOLEAN, imports : BOOLEAN,
           cmd : [1..2 -> CmdOutcomes], train : {"done", "raises"},
           mkdir : {"done", "FileExistsError"}]

\* for cmd in (...): return True on return code 0, else go on to the next
\* command; return False after the last. FileNotFoundError and
\* TimeoutExpired are caught, any other exception of subprocess.run
\* leaves the function
RECURSIVE RunCmds(_, _)
RunCmds(w, i) ==
    IF i > Len(w.cmd) THEN "False"
    ELSE IF w.cmd[i] = "rc0" THEN "True"
    ELSE IF w.cmd[i] = "PermissionError" THEN "raise"
    ELSE RunCmds(w, i + 1)

try_optimum_export(w) ==
    IF ~w.saved_model THEN "False" ELSE RunCmds(w, 1)

export_keras_to_tflite(w) ==
    IF ~w.imports THEN "False"
    ELSE IF ~w.saved_model THEN "False"
    ELSE IF ~w.dataset THEN "False"
    ELSE IF w.train = "raises" THEN "raise"
    ELSE "True"

export_keras_for_mediapipe(w) ==
    IF ~w.imports THEN "False"
    ELSE IF ~w.saved_model THEN "False"
    ELSE IF ~w.dataset THEN "False"
    ELSE IF w.train = "raises" THEN "raise"
    ELSE "True"

Attempt(export, result) == [export |-> export, result |-> result]

InitExport ==
    /\ row = Empty
    /\ risk_out = Pending
    /\ text_out = PendingText
    /\ MainIdle
    /\ StoreIdle
    /\ PoolIdle
    /\ args \in Args
    /\ world \in Worlds
    /\ attempted = <<>>
    /\ ok = "unset"
    /\ xpc = "main"
    /\ exit_status = -1

\* args = parser.parse_args(): -h prints the help and exits with status 0,
\* an unknown argument exits with status 2 (the help action comes first);
\* TFLITE_DIR.mkdir(parents=True, exist_ok=True): its exception leaves
\* main and the interpreter exits with status 1; then the branch taken
ParseExit(a) == IF a.other = "help" THEN 0 ELSE 2
X_Main ==
    /\ xpc = "main"
    /\ IF args.other # "none"
       THEN xpc' = "exit" /\ exit_status' = ParseExit(args)
       ELSE IF world.mkdir # "done"
       THEN xpc' = "raised" /\ exit_status' = 1
       ELSE /\ xpc' = IF args.for_mediapipe THEN "mediapipe"
                      ELSE IF args.use_keras_only THEN "keras"
                      ELSE "optimum"
            /\ exit_status' = exit_status
    /\ UNCHANGED <<args, world, attempted, ok,
                   vitalsVars, mainVars, storeVars, poolVars>>

\* An export that ran: its result is assigned to ok, or its exception
\* leaves main and the interpreter exits with status 1
Ran(export, result, next) ==
    /\ attempted' = Append(attempted, Attempt(export, result))
    /\ IF result = "raise"
       THEN xpc' = "raised" /\ exit_status' = 1 /\ ok' = ok
       ELSE xpc' = next /\ exit_status' = exit_status /\ ok' = result
    /\ UNCHANGED <<args, world, vitalsVars, mainVars, storeVars, poolVars>>

\* ok = try_optimum_export(); if not ok: (fall back)
X_Optimum ==
    /\ xpc = "optimum"
    /\ LET result == try_optimum_export(world)
       IN Ran("try_optimum_export", result, IF result = "True" THEN "return" ELSE "keras")

\* ok = export_keras_to_tflite()
X_Keras ==
    /\ xpc = "keras"
    /\ Ran("export_keras_to_tflite", export_keras_to_tflite(world), "return")

\* ok = export_keras_for_mediapipe()
X_Mediapipe ==
    /\ xpc = "mediapipe"
    /\ Ran("export_keras_for_mediapipe", export_keras_for_mediapipe(world), "return")

\* return 0 if ok else 1; sys.exit(main())
X_Return ==
    /\ xpc = "return"
    /\ exit_status' = IF ok = "True" THEN 0 ELSE 1
    /\ xpc' = "exit"
    /\ UNCHANGED <<args, world, attempted, ok, vitalsVars, mainVars, storeVars, poolVars>>

NextExport == X_Main \/ X_Optimum \/ X_Keras \/ X_Mediapipe \/ X_Return

SpecExport == InitExport /\ [][NextExport]_vars

(***************************************************************************)
(* Properties of export_to_tflite (SpecExport)                             *)
(***************************************************************************)
Exited == xpc \in {"exit", "raised"}
NoFlags == ~args.for_mediapipe /\ ~args.use_keras_only
AttemptedExports == {attempted[i].export : i \in 1..Len(attempted)}

\* C21: on a command line the parser accepts (no flag, --use_keras_only
\* or --for_mediapipe): without flags the Optimum export is attempted first
\* and the Keras fallback is attempted if and only if the Optimum export
\* did not succeed; with --use_keras_only or --for_mediapipe the Optimum
\* export is never attempted; the exit status is 0 if and only if the last
\* attempted export succeeded.
Parsed == args.other = "none"
C21_ExportOrder ==
    Parsed =>
       /\ ~NoFlags => "try_optimum_export" \notin AttemptedExports
       /\ (NoFlags /\ attempted # <<>>) => attempted[1].export = "try_optimum_export"
       /\ \A i \in 2..Len(attempted) :
             /\ NoFlags /\ i = 2
             /\ attempted[i].export = "export_keras_to_tflite"
             /\ attempted[1].result # "True"
       /\ Exited =>
             /\ (NoFlags /\ attempted # <<>>) =>
                   (Len(attempted) = 2 <=> attempted[1].result # "True")
             /\ exit_status = 0 <=>
                   /\ attempted # <<>>
                   /\ attempted[Len(attempted)].result = "True"
             /\ exit_status \in {0, 1}

\* Where the claim of C21 fails: the Optimum export left main through an
\* exception, so it did not succeed and the fallback was never attempted.
OptimumRaised ==
    /\ Exited /\ Parsed /\ NoFlags
    /\ attempted = <<Attempt("try_optimum_export", "raise")>>
    /\ exit_status = 1

\* What holds of the order in every run: the fallback follows exactly an
\* Optimum export that returned False, and an export that raises is the
\* last one attempted.
ExportOrderOnReturn ==
    /\ C21_ExportOrder \/ OptimumRaised
    /\ (Exited /\ Parsed /\ NoFlags /\ attempted # <<>>) =>
          (Len(attempted) = 2 <=> attempted[1].result = "False")
    /\ (Exited /\ ~Parsed) => attempted = <<>> /\ exit_status \in {0, 2}

(***************************************************************************)
(* Sequential histories of the entity store (SpecStore)                    *)
(***************************************************************************)
\* C22: in any sequential history of Push, ExpireEntity, GetEntity and
\* ListEntities calls from the empty store, GetEntity(id) succeeds with
\* entity e if and only if the most recent Push or successful ExpireEntity
\* that touched id was a Push whose last change with that id is e;
\* otherwise it reports NOT_FOUND.
C22_GetSeesLastWrite ==
    last.op = "GetEntity" =>
        IF recent[last.id].op = "Push"
        THEN last.code = "OK" /\ last.found = recent[last.id].entity
        ELSE last.code = "NOT_FOUND" /\ last.found = <<>>

\* C22 witnesses: a GetEntity of an id last touched by a successful
\* ExpireEntity, while the store holds other entities; and a GetEntity that
\* returns what a Push wrote over an entity stored before.
C22_Witness ==
    /\ last.op = "GetEntity" /\ last.id = "e2"
    /\ recent["e2"].op = "ExpireEntity"
    /\ recent["e1"].op = "Push" /\ recent[""].op = "Push"
    /\ last.code = "NOT_FOUND"

(***************************************************************************)
(* The WorldService server with requests served by the worker threads of   *)
(* the pool.  The handlers share the dict `entities` without a lock; a     *)
(* thread switch can fall between any two operations on the dict.          *)
(*                                                                         *)
(* The dict is its table of entries in insertion order: `del` leaves a     *)
(* hole in place, a new key takes the next free entry, and when the table  *)
(* is full the insert rebuilds it without the holes.  An iterator keeps    *)
(* the size of the dict when it was made, its position in the table and    *)
(* the number of values it still expects.                                  *)
(***************************************************************************)
Workers == 1..MaxWorkers

\* The entry of a deleted key
Hole == [id |-> "<dummy>", label |-> ""]

\* Entries a table of n slots can take: USABLE_FRACTION(n) = (n << 1) / 3
Usable(n) == (2 * n) \div 3

Compact(table) == SelectSeq(table, LAMBDA e : e # Hole)

\* len(entities)
Used(table) == Len(Compact(table))

\* The number of bits of n
RECURSIVE bit_length(_)
bit_length(n) == IF n = 0 THEN 0 ELSE 1 + bit_length(n \div 2)

\* 2 to the power k
RECURSIVE Pow2(_)
Pow2(k) == IF k = 0 THEN 1 ELSE 2 * Pow2(k - 1)

\* m | b for b a power of two
BitOr(m, b) == IF (m \div b) % 2 = 1 THEN m ELSE m + b

\* The slots of the table built for minsize entries:
\* minsize = (minsize | PyDict_MINSIZE) - 1;
\* 1 << bit_length(minsize | (PyDict_MINSIZE - 1))
calculate_keysize(minsize) ==
    LET m == BitOr(minsize, PyDict_MINSIZE) - 1
    IN Pow2(bit_length((m \div PyDict_MINSIZE) * PyDict_MINSIZE + PyDict_MINSIZE - 1))

\* GROWTH_RATE(d) = d->ma_used * 3
GROWTH_RATE(table) == Used(table) * 3

\* A new key finds no usable entry left in a table of size slots
TableFull(table, size) == Len(table) >= Usable(size)

\* entities[e.id] = e on the table: a key it holds keeps its entry; a new
\* key takes the next entry, after the table was rebuilt without its holes
\* when none was left
tbl_set(table, size, e) ==
    IF HasKey(table, e.id) THEN [table EXCEPT ![KeyIndex(table, e.id)] = e]
    ELSE IF ~TableFull(table, size) THEN Append(table, e)
    ELSE Append(Compact(table), e)

\* The slots of the table after entities[e.id] = e: a rebuild makes a table
\* for GROWTH_RATE entries
tbl_size(table, size, e) ==
    IF HasKey(table, e.id) \/ ~TableFull(table, size) THEN size
    ELSE calculate_keysize(GROWTH_RATE(table))

\* del entities[id] on the table, the key being present
tbl_del(table, id) == [table EXCEPT ![KeyIndex(table, id)] = Hole]

\* iter(entities.values())
NewIter(table) == [used |-> Used(table), pos |-> 0, len |-> Used(table)]
NoIter == [used |-> 0, pos |-> 0, len |-> 0]

\* The first entry after position pos that is not a hole, or 0
NextEntry(table, pos) ==
    IF \E i \in (pos + 1)..Len(table) : table[i] # Hole
    THEN CHOOSE i \in (pos + 1)..Len(table) :
            /\ table[i] # Hole
            /\ \A j \in (pos + 1)..(i - 1) : table[j] = Hole
    ELSE 0

\* The requests the threads serve
PoolIds == {"e1", "e2"}
PoolLabels == {"ab"}
PoolEntity == [id : PoolIds, label : PoolLabels]
PoolChanges == UNION {[1..k -> PoolEntity] : k \in 0..MaxChanges}
PoolFilters == {[id |-> "", label |-> ""], [id |-> "e1", label |-> "b"]}

Request(op, id, changes, filter) ==
    [op |-> op, id |-> id, changes |-> changes, filter |-> filter]

Requests ==
    {Request("ListEntities", "", <<>>, f) : f \in PoolFilters} \cup
    {Request("GetEntity", id, <<>>, [id |-> "", label |-> ""]) : id \in PoolIds} \cup
    {Request("Push", "", ch, [id |-> "", label |-> ""]) : ch \in PoolChanges} \cup
    {Request("ExpireEntity", id, <<>>, [id |-> "", label |-> ""]) : id \in PoolIds}

NoRequest == Request("none", "", <<>>, [id |-> "", label |-> ""])

\* A worker thread with no request: n is the number of the call (0: none),
\* i the position in request.changes, it the iterator of ListEntities,
\* exc the exception that left the handler.  seen, writes, peers and
\* stored record what happened while the call was in progress: the entities
\* the store held at some moment, the kinds of write other calls made, the
\* calls in progress at the same time, and whether request.id was stored
\* when the call started.
IdleWorker ==
    [n |-> 0, req |-> NoRequest, pc |-> "idle", i |-> 0, it |-> NoIter,
     filtered |-> <<>>, code |-> "OK", exc |-> "", accepted |-> FALSE, found |-> <<>>,
     seen |-> {}, writes |-> {}, peers |-> {}, stored |-> FALSE]

InProgress(c) == c.pc \notin {"idle", "done"}

FirstStep(op) ==
    CASE op = "ListEntities" -> "list_iter"
      [] op = "GetEntity" -> "get"
      [] op = "Push" -> "push"
      [] op = "ExpireEntity" -> "expire_test"

\* The dict after entities[e.id] = e
Stored(d, e) ==
    [table |-> tbl_set(d.table, d.size, e), size |-> tbl_size(d.table, d.size, e)]

\* The dict of a server that has served Push(e2) and then n rounds of
\* Push(e1), ExpireEntity(e1), one call at a time
WearEntity(id) == [id |-> id, label |-> "ab"]
RECURSIVE Worn(_)
Worn(n) ==
    IF n = 0 THEN Stored([table |-> <<>>, size |-> PyDict_MINSIZE], WearEntity("e2"))
    ELSE LET d == Stored(Worn(n - 1), WearEntity("e1"))
         IN [d EXCEPT !.table = tbl_del(d.table, "e1")]

\* The dict when the threads start: as created, or worn by earlier calls
StartDicts ==
    {[table |-> <<>>, size |-> PyDict_MINSIZE]} \cup {Worn(n) : n \in 0..MaxWear}

InitPool ==
    /\ row = Empty
    /\ risk_out = Pending
    /\ text_out = PendingText
    /\ MainIdle
    /\ last = NoCall
    /\ before = [entities |-> <<>>, expired |-> {}]
    /\ expired = {}
    /\ recent = [id \in EntityIds |-> Untouched]
    /\ ExportIdle
    /\ \E d \in StartDicts : entities = d.table /\ dk_size = d.size
    /\ calls = [w \in Workers |-> IdleWorker]
    /\ served = 0

PoolUnchanged == UNCHANGED <<last, before, expired, recent, vitalsVars, mainVars, exportVars>>

\* The pool hands a request to a free worker thread
P_Accept(w, r) ==
    /\ calls[w].pc = "idle"
    /\ served < MaxCalls
    /\ served' = served + 1
    /\ calls' = [v \in Workers |->
                   IF v = w
                   THEN [IdleWorker EXCEPT
                           !.n = served + 1, !.req = r, !.pc = FirstStep(r.op), !.i = 1,
                           !.seen = Held(entities) \ {Hole},
                           !.peers = {calls[u].n : u \in {x \in Workers : InProgress(calls[x])}},
                           !.stored = HasKey(entities, r.id)]
                   ELSE IF InProgress(calls[v])
                        THEN [calls[v] EXCEPT !.peers = @ \cup {served + 1}]
                        ELSE calls[v]]
    /\ UNCHANGED <<entities, dk_size>>
    /\ PoolUnchanged

\* Worker w moves to c; the dict becomes table, of size slots, by a write of
\* the given kind ("" when the step does not write), which the other calls
\* in progress see
StepDict(w, c, table, size, kind) ==
    /\ entities' = table
    /\ dk_size' = size
    /\ calls' = [v \in Workers |->
                   IF v = w THEN c
                   ELSE IF kind # "" /\ InProgress(calls[v])
                        THEN [calls[v] EXCEPT !.seen = @ \cup (Held(table) \ {Hole}),
                                              !.writes = @ \cup {kind}]
                        ELSE calls[v]]
    /\ UNCHANGED served
    /\ PoolUnchanged

\* A step that leaves the size of the table as it is
Step(w, c, table, kind) == StepDict(w, c, table, dk_size, kind)

\* filtered = []; for entity in entities.values(): (the iterator is made)
P_ListIter(w) ==
    /\ calls[w].pc = "list_iter"
    /\ Step(w, [calls[w] EXCEPT !.filtered = <<>>, !.it = NewIter(entities),
                                !.pc = "list_next"], entities, "")

\* One turn of the loop: the iterator raises RuntimeError when the size of
\* the dict is not the one it kept, or when it finds a value it did not
\* expect; it ends the loop when no entry is left; else the entity is
\* appended to filtered when it matches the filter.  After the loop the
\* response is returned.
P_ListNext(w) ==
    /\ calls[w].pc = "list_next"
    /\ LET c == calls[w]
           i == NextEntry(entities, c.it.pos)
       IN IF c.it.used # Used(entities)
          THEN Step(w, [c EXCEPT !.exc = "RuntimeError", !.code = "UNKNOWN", !.pc = "done"],
                    entities, "")
          ELSE IF i = 0
          THEN Step(w, [c EXCEPT !.found = c.filtered, !.pc = "done"], entities, "")
          ELSE IF c.it.len = 0
          THEN Step(w, [c EXCEPT !.exc = "RuntimeError", !.code = "UNKNOWN", !.pc = "done"],
                    entities, "")
          ELSE Step(w, [c EXCEPT !.it = [used |-> c.it.used, pos |-> i, len |-> c.it.len - 1],
                                 !.filtered = IF _matches_filter(entities[i], c.req.filter)
                                              THEN Append(@, entities[i]) ELSE @],
                    entities, "")

\* entity = entities.get(request.id) and the response
P_Get(w) ==
    /\ calls[w].pc = "get"
    /\ LET c == calls[w]
           entity == dict_get(entities, c.req.id)
       IN IF entity # <<>> /\ MsgTruthy(entity[1])
          THEN Step(w, [c EXCEPT !.found = entity, !.pc = "done"], entities, "")
          ELSE Step(w, [c EXCEPT !.code = "NOT_FOUND", !.pc = "done"], entities, "")

\* One turn of `for entity in request.changes: entities[entity.id] = entity`,
\* or the response after the last
P_Push(w) ==
    /\ calls[w].pc = "push"
    /\ LET c == calls[w]
       IN IF c.i <= Len(c.req.changes)
          THEN LET e == c.req.changes[c.i]
               IN StepDict(w, [c EXCEPT !.i = c.i + 1],
                           tbl_set(entities, dk_size, e), tbl_size(entities, dk_size, e),
                           IF HasKey(entities, e.id) THEN "push_update" ELSE "push_new")
          ELSE Step(w, [c EXCEPT !.accepted = TRUE, !.pc = "done"], entities, "")

\* if request.id in entities:
P_ExpireTest(w) ==
    /\ calls[w].pc = "expire_test"
    /\ LET c == calls[w]
       IN IF HasKey(entities, c.req.id)
          THEN Step(w, [c EXCEPT !.pc = "expire_del"], entities, "")
          ELSE Step(w, [c EXCEPT !.code = "NOT_FOUND", !.pc = "done"], entities, "")

\* del entities[request.id]: KeyError when the key is no longer there
P_ExpireDel(w) ==
    /\ calls[w].pc = "expire_del"
    /\ LET c == calls[w]
       IN IF HasKey(entities, c.req.id)
          THEN Step(w, [c EXCEPT !.pc = "done"], tbl_del(entities, c.req.id), "expire")
          ELSE Step(w, [c EXCEPT !.exc = "KeyError", !.code = "UNKNOWN", !.pc = "done"],
                    entities, "")

\* The response (or the error) is sent and the thread is free again
P_Respond(w) ==
    /\ calls[w].pc = "done"
    /\ Step(w, IdleWorker, entities, "")

AnyAccept == \E w \in Workers : \E r \in Requests : P_Accept(w, r)
AnyListIter == \E w \in Workers : P_ListIter(w)
AnyListNext == \E w \in Workers : P_ListNext(w)
AnyGet == \E w \in Workers : P_Get(w)
AnyPushStep == \E w \in Workers : P_Push(w)
AnyExpireTest == \E w \in Workers : P_ExpireTest(w)
AnyExpireDel == \E w \in Workers : P_ExpireDel(w)
AnyRespond == \E w \in Workers : P_Respond(w)

NextPool ==
    AnyAccept \/ AnyListIter \/ AnyListNext \/ AnyGet \/ AnyPushStep \/ AnyExpireTest \/ AnyExpireDel \/ AnyRespond

SpecPool == InitPool /\ [][NextPool]_vars

(***************************************************************************)
(* Properties of the server under overlapping calls (SpecPool)             *)
(***************************************************************************)
\* A finished ListEntities call during which other calls wrote the dict,
\* each write a Push of a new id or the delete of an ExpireEntity
ListOverlapped(c) ==
    /\ c.req.op = "ListEntities" /\ c.pc = "done"
    /\ c.writes # {} /\ c.writes \subseteq {"push_new", "expire"}

\* C23: a ListEntities call that overlaps with a Push of a new id or with
\* an ExpireEntity completes normally and returns only entities that were
\* in the store at some moment during the call; the iteration never fails
\* because the dictionary changed size.
C23_ListSurvivesOverlap ==
    \A w \in Workers :
        ListOverlapped(calls[w]) =>
            /\ calls[w].exc = ""
            /\ Held(calls[w].found) \subseteq calls[w].seen

\* Two finished ExpireEntity calls for the same id, stored when each of
\* them started, that were in progress at the same time
ExpiredTogether(c, d) ==
    /\ c.req.op = "ExpireEntity" /\ d.req.op = "ExpireEntity"
    /\ c.req.id = d.req.id
    /\ c.pc = "done" /\ d.pc = "done"
    /\ c.stored /\ d.stored
    /\ d.n \in c.peers

\* C24: when two ExpireEntity calls for the same stored id run concurrently,
\* exactly one of them reports success and the other reports NOT_FOUND, and
\* neither ends in an unhandled error.
C24_OneExpireWins ==
    \A v \in Workers : \A w \in Workers :
        (v # w /\ ExpiredTogether(calls[v], calls[w])) =>
            /\ calls[v].exc = "" /\ calls[w].exc = ""
            /\ {calls[v].code, calls[w].code} = {"OK", "NOT_FOUND"}

\* What does hold of an overlapped ListEntities: it returns only entities
\* the store held at some moment during the call
ListReturnsSeen ==
    \A w \in Workers :
        (calls[w].req.op = "ListEntities" /\ calls[w].pc = "done") =>
            Held(calls[w].found) \subseteq calls[w].seen

(***************************************************************************)
(* Relations between classifications (Spec)                                *)
(***************************************************************************)
\* The seven floats assign_risk_and_recommendation reads from the row
F_hr_avg == FloatOr0(row, "HR_avg")
F_hr_max == FloatOr0(row, "HR_max")
F_spo2 == FloatOr0(row, "SpO2_avg")
F_intensity == FloatOr0(row, "Intensity_min")
F_sleep_min == FloatOr0(row, "Sleep_total_min")
F_steps == FloatOr0(row, "Steps")

\* The classifier with rule 1 (the no-data early return) removed
assign_without_rule1(r) ==
    LET hr_avg == FloatOr0(r, "HR_avg")
        hr_max == FloatOr0(r, "HR_max")
        hr_rest == FloatOr0(r, "HR_resting")
        spo2 == FloatOr0(r, "SpO2_avg")
        intensity == FloatOr0(r, "Intensity_min")
        sleep_min == FloatOr0(r, "Sleep_total_min")
        steps == FloatOr0(r, "Steps")
        exc == FirstExc(<<hr_avg, hr_max, hr_rest, spo2, intensity, sleep_min, steps>>)
    IN IF exc # "" THEN Raise(exc)
       ELSE LET risk == RiskLevel(hr_avg, hr_max, spo2, intensity, sleep_min, steps)
            IN [status |-> "ok", risk |-> risk, rec |-> Recommendation(risk)]

\* C25: the no-data early return is redundant: no record with hr_avg <= 0,
\* hr_max <= 0, spo2 <= 0 and intensity <= 0 satisfies a red or yellow
\* clause, so the classifier with rule 1 removed returns the same (level,
\* recommendation) as assign_risk_and_recommendation for every record.
C25_NoDataRedundant ==
    Classified =>
        /\ (risk_out.status = "ok" /\ NoData(F_hr_avg, F_hr_max, F_spo2, F_intensity)) =>
              /\ ~RedClause(F_hr_avg, F_hr_max, F_spo2, F_intensity, F_sleep_min)
              /\ ~YellowClause(F_hr_avg, F_hr_max, F_spo2, F_intensity, F_sleep_min, F_steps)
        /\ risk_out = assign_without_rule1(row)

\* C25 witness: a classified record with no heart-rate, SpO2 or intensity
\* reading, many steps and almost no sleep.
C25_Witness ==
    /\ Classified /\ AllReadings /\ RuleNoData
    /\ R_steps > Units(5000) /\ R_sleep > 0 /\ R_sleep < Units(30)
    /\ risk_out = GreenPair

\* green < yellow < red
Level(risk) == CASE risk = "green" -> 0 [] risk = "yellow" -> 1 [] risk = "red" -> 2

\* The values a field is moved to: both sides of every threshold it is
\* compared with
Marks(f) ==
    CASE f = "HR_avg" -> {-1, 0, Units(80), Units(80) + 1, Units(85), Units(85) + 1,
                          Units(100), Units(100) + 1}
      [] f = "HR_max" -> {-1, 0, Units(100), Units(100) + 1, Units(120), Units(120) + 1}
      [] f = "Intensity_min" -> {-1, 0, Units(20), Units(20) + 1, Units(45), Units(45) + 1}
      [] f = "Steps" -> {0, Units(5000), Units(5001)}
      [] f = "Sleep_total_min" -> {-1, 0, Units(30) - 1, Units(30), Units(60) - 1, Units(60),
                                   Units(300) - 1, Units(300)}

\* The rows that differ from the row in one field: HR_avg, HR_max,
\* Intensity_min or Steps raised, or Sleep_total_min lowered
MoreStrain ==
    UNION {{[row EXCEPT ![f] = Num(h)] : h \in {m \in Marks(f) : m > Reading(f)}} :
              f \in {"HR_avg", "HR_max", "Intensity_min", "Steps"}}
    \cup
    {[row EXCEPT !["Sleep_total_min"] = Num(h)] :
        h \in {m \in Marks("Sleep_total_min") : m < R_sleep}}

\* C26: the classification is monotone in strain under green < yellow <
\* red: with all other fields fixed, raising hr_avg, hr_max, intensity_min
\* or steps, or lowering sleep_total_min, never lowers the level returned by
\* assign_risk_and_recommendation.
C26_MonotoneInStrain ==
    (Classified /\ risk_out.status = "ok") =>
        \A r \in MoreStrain :
            Level(assign_risk_and_recommendation(r).risk) >= Level(risk_out.risk)

\* C26 witness: a classified record with no heart-rate, SpO2 or intensity
\* reading (green), from which raising one field leads to yellow, raising
\* another to red, and raising the steps leaves green.
C26_Witness ==
    /\ Classified /\ AllReadings /\ RuleNoData
    /\ risk_out = GreenPair
    /\ \E r \in MoreStrain : assign_risk_and_recommendation(r).risk = "yellow"
    /\ \E r \in MoreStrain : assign_risk_and_recommendation(r).risk = "red"
    /\ \E r \in MoreStrain :
          /\ r["Steps"] # row["Steps"]
          /\ assign_risk_and_recommendation(r).risk = "green"

(***************************************************************************)
(* The synthetic examples against the rules (SpecMain)                     *)
(***************************************************************************)
\* The position of the first occurrence of sub in str at or after i, or 0
RECURSIVE FindFrom(_, _, _)
FindFrom(str, sub, i) ==
    IF i + Len(sub) - 1 > Len(str) THEN 0
    ELSE IF SubSeq(str, i, i + Len(sub) - 1) = sub THEN i
    ELSE FindFrom(str, sub, i + 1)

Digit(ch) ==
    CASE ch = "0" -> 0 [] ch = "1" -> 1 [] ch = "2" -> 2 [] ch = "3" -> 3 [] ch = "4" -> 4
      [] ch = "5" -> 5 [] ch = "6" -> 6 [] ch = "7" -> 7 [] ch = "8" -> 8 [] ch = "9" -> 9
      [] OTHER -> -1

IsDigitAt(str, i) == i <= Len(str) /\ Digit(SubSeq(str, i, i)) >= 0

\* The number written in str from position i on (acc: the digits read so
\* far), and the position after its last digit
RECURSIVE NumberAt(_, _, _)
NumberAt(str, i, acc) ==
    IF IsDigitAt(str, i) THEN NumberAt(str, i + 1, acc * 10 + Digit(SubSeq(str, i, i)))
    ELSE acc

RECURSIVE EndOfNumber(_, _)
EndOfNumber(str, i) == IF IsDigitAt(str, i) THEN EndOfNumber(str, i + 1) ELSE i

\* The number a text states after a key word, the field being absent when
\* the text does not mention it
StatedNumber(text, key) ==
    LET p == FindFrom(text, key, 1)
    IN IF p = 0 THEN Missing ELSE Num(Units(NumberAt(text, p + Len(key), 0)))

\* "sleep 6h30m", "sleep 7h": the minutes
StatedSleep(text) ==
    LET p == FindFrom(text, "sleep ", 1)
        e == EndOfNumber(text, p + 6)
    IN IF p = 0 THEN Missing
       ELSE Num(Units(60 * NumberAt(text, p + 6, 0) + NumberAt(text, e + 1, 0)))

\* The vitals stated in a text, fields not mentioned taken as absent
StatedVitals(text) ==
    [f \in Fields |->
        CASE f = "HR_avg" -> StatedNumber(text, "HR average ")
          [] f = "HR_max" -> StatedNumber(text, "HR max ")
          [] f = "HR_resting" -> StatedNumber(text, "resting HR ")
          [] f = "SpO2_avg" -> StatedNumber(text, "SpO2 ")
          [] f = "Steps" -> StatedNumber(text, "steps ")
          [] f = "Intensity_min" -> StatedNumber(text, "active ")
          [] f = "Calories" -> StatedNumber(text, "calories ")
          [] f = "Sleep_total_min" -> StatedSleep(text)]

\* The rows build_dataset appended after the rows of the frame
Appended == SubSeq(rows, Len(df) + 1, Len(rows))

ConsistentWithRules(ex) ==
    LET labelled == assign_risk_and_recommendation(StatedVitals(ex.text))
    IN /\ labelled.status = "ok"
       /\ ex.risk_level = labelled.risk
       /\ ex.recommendation = Recommendation(labelled.risk)

\* C27: every synthetic example appended by build_dataset is consistent
\* with the rule-based labelling of the real rows: its risk_level is the
\* level assign_risk_and_recommendation returns for the vitals stated in its
\* text (fields not mentioned taken as absent), and its recommendation is
\* the one keyed to that level.
C27_SyntheticMatchRules ==
    pc \in {"built", "exit"} =>
        \A k \in 1..Len(Appended) : ConsistentWithRules(Appended[k])

====
